---- MODULE Spec2Model ----
(***************************************************************************)
(* Model of pkg/importer/nbdkit-http-datasource.go (NbdkitHTTPDataSource)  *)
(* and of the nbdkit operations it drives (nbdkitOperations in package     *)
(* image).  One driver thread calls the phase operations; every thread may *)
(* call Close, which is modelled statement by statement.                   *)
(***************************************************************************)
EXTENDS Integers, Sequences, FiniteSets, TLC

\* ---- bounds of the model -------------------------------------------------
MaxCloses == 2

\* ---- values --------------------------------------------------------------
Threads == {"driver", "watchdog"}

\* A Go error is a cause chain: <<>> is nil, the outermost message is first,
\* the root cause is last.
NoErr == <<>>

Wrap(err, msg) == <<msg>> \o err

Cause(err) == err[Len(err)]

DataVolumeKubeVirt == "kubevirt"

ContentTypes == {"kubevirt", "archive"}

ProcessingPhaseError == "Error"

ProcessingPhaseTransferDataFile == "TransferDataFile"

ProcessingPhaseResize == "Resize"

ProcessingPhaseConvert == "Convert"

ErrInvalidPath == <<"invalid transfer path">>

ErrUnsupportedContentType == <<"This data source only supports kubevirt disk images">>

tempFile == "tmpimage"

Xz == "xz"

\* ---- URLs ----------------------------------------------------------------
\* A *url.URL is a record; User is <<>> (nil), <<name>> or <<name, password>>.
NilURL == [Scheme |-> "", User |-> <<>>, Host |-> "", Path |-> ""]

UserPassword(username, password) == <<username, password>>

UserinfoString(u) ==
    IF Len(u) = 0 THEN ""
    ELSE IF Len(u) = 1 THEN u[1] \o "@"
    ELSE u[1] \o ":" \o u[2] \o "@"

URLString(u) == u.Scheme \o "://" \o UserinfoString(u.User) \o u.Host \o u.Path

\* The endpoint strings a caller passes, with what ParseEndpoint makes of them.
EndpointInputs == {"https://example.com/disk.qcow2", "http://bob@mirror/d.img", "::"}

ParseEndpoint(endpoint) ==
    IF endpoint = "https://example.com/disk.qcow2"
    THEN [err |-> NoErr,
          ep |-> [Scheme |-> "https", User |-> <<>>, Host |-> "example.com", Path |-> "/disk.qcow2"]]
    ELSE IF endpoint = "http://bob@mirror/d.img"
    THEN [err |-> NoErr,
          ep |-> [Scheme |-> "http", User |-> <<"bob">>, Host |-> "mirror", Path |-> "/d.img"]]
    ELSE [err |-> <<"missing protocol scheme">>, ep |-> NilURL]

AccessKeys == {"", "ak"}

SecKeys == {"", "sk"}

CertDirs == {"", "/certs"}

\* ---- collaborators' outcomes ---------------------------------------------
\* hs.readers: "nil", or a FormatReaders whose Xz flag is set or not.
NilReaders == "nil"

ReadersXz(r) == r = "xz"

\* NewFormatReaders(hs.httpReader, hs.contentLength): the stack and the error.
ClassifyOutcomes ==
    {[readers |-> r, err |-> NoErr] : r \in {"raw", "xz"}}
    \cup {[readers |-> r, err |-> <<"ClassificationFailed">>] : r \in {NilReaders, "raw"}}

\* hs.readers.Close(): the error of releasing the reader stack.
ReleaseOutcomes == {NoErr, <<"ResourceReleaseFailed">>}

\* createHTTPReader: the reader, the content length and the error.
HTTPReaderOutcomes ==
    {[err |-> NoErr, contentLength |-> 200]}
    \cup {[err |-> <<"HTTP request errored">>, contentLength |-> 0]}

\* util.GetAvailableSpace(path): the size it reports.
AvailableSpaces == {-1, 0, 4096}

ScratchPaths == {"/scratch"}

DestFiles == {"/data/disk.img"}

\* nbdkitExecFunction: exit status of /usr/sbin/nbdkit, and whether the run
\* left something at the destination.
ExecOutcomes ==
    {[err |-> NoErr, wrote |-> TRUE],
     [err |-> <<"exit status 1">>, wrote |-> TRUE],
     [err |-> <<"fork/exec /usr/sbin/nbdkit: no such file or directory">>, wrote |-> FALSE]}

\* ---- filepath.Join -------------------------------------------------------
FilepathJoin(dir, name) == dir \o "/" \o name

\* ---- package image: the argument builder and the executor ---------------
NBDKitArgs(sourceURL, dest, filters, certDir) ==
    [SourceURL |-> sourceURL, Dest |-> dest, Filters |-> filters, CertDir |-> certDir]

appendCurlArgs(commandArgs, args) ==
    LET a1 == commandArgs \o <<"-r", "curl", "--verbose">>
        a2 == IF args.CertDir # ""
              THEN Append(a1, "cainfo=" \o args.CertDir \o "/" \o "tls.crt")
              ELSE a1
    IN  Append(a2, URLString(args.SourceURL))

appendRunArgs(commandArgs, args) ==
    commandArgs \o <<"--run", "/usr/bin/qemu-img convert -p $nbd -t none -O raw " \o args.Dest>>

\* The filter loop taking the requested filters last to first.
RECURSIVE appendFiltersReversed(_, _)
appendFiltersReversed(commandArgs, filters) ==
    IF filters = <<>> THEN commandArgs
    ELSE Append(appendFiltersReversed(commandArgs, Tail(filters)),
                "--filter=" \o Head(filters))

RECURSIVE appendFilters(_, _)
appendFilters(commandArgs, filters) ==
    IF filters = <<>> THEN commandArgs
    ELSE appendFilters(Append(commandArgs, "--filter=" \o Head(filters)), Tail(filters))

BuildCommandArgs(args) ==
    appendRunArgs(appendFilters(appendCurlArgs(<<"-U", "-">>, args), args.Filters), args)

\* os.Remove(path) on the set of existing paths; removeOK is whether the
\* removal of an existing path goes through.
OsRemove(fs, path, removeOK) == IF removeOK THEN fs \ {path} ELSE fs

\* ConvertAndWrite with the os.Remove of the failure path left out.
ConvertAndWriteNoRemove(args, exec, removeOK, fs) ==
    LET commandArgs == BuildCommandArgs(args)
        afterExec   == IF exec.wrote THEN fs \cup {args.Dest} ELSE fs
    IN  [err |-> IF exec.err # NoErr
                 THEN Wrap(exec.err, "could not stream/convert image to raw")
                 ELSE NoErr,
         files |-> afterExec,
         commandArgs |-> commandArgs,
         removeCalled |-> FALSE]

\* ConvertAndWrite(args) against the files fs, for one outcome of the
\* subprocess (exec) and one of os.Remove (removeOK).  Gives the error
\* returned, the files afterwards, the command line and whether os.Remove
\* was called.
ConvertAndWrite(args, exec, removeOK, fs) ==
    LET commandArgs == BuildCommandArgs(args)
        afterExec   == IF exec.wrote THEN fs \cup {args.Dest} ELSE fs
    IN  IF exec.err # NoErr
        THEN [err |-> Wrap(exec.err, "could not stream/convert image to raw"),
              files |-> OsRemove(afterExec, args.Dest, removeOK),
              commandArgs |-> commandArgs,
              removeCalled |-> TRUE]
        ELSE [err |-> NoErr,
              files |-> afterExec,
              commandArgs |-> commandArgs,
              removeCalled |-> FALSE]

\* ---- state ---------------------------------------------------------------
VARIABLES
    newResult,     \* "none" before NewNbdkitHTTPDataSource, then "live" or "error"
    hs,            \* the fields of the NbdkitHTTPDataSource
    ctx,           \* the context behind hs.ctx: "none", "live" or "cancelled"
    files,         \* the paths that exist on the filesystem
    ret,           \* what the driver's last operation returned and did
    pc,            \* each thread's position in Close
    err,           \* each thread's local err in Close
    rel,           \* what hs.readers.Close() gave each thread in its Close call
    closeRet,      \* what each thread's last Close call returned
    closesDone,    \* number of Close calls that have returned
    errsReturned,  \* number of Close calls that returned an error
    cancelCalls,   \* number of calls of the cancel function
    releaseCalls,  \* number of calls of hs.readers.Close
    infoSucceeded, \* an Info call has returned TransferDataFile
    unlockedAccess,\* hs.cancel was read or written without holding cancelLock
    panicked       \* the process died of a nil dereference

vars == <<newResult, hs, ctx, files, ret, pc, err, rel, closeRet, closesDone,
          errsReturned, cancelCalls, releaseCalls, infoSucceeded, unlockedAccess, panicked>>

closeVars == <<pc, err, rel, closeRet, closesDone, errsReturned, cancelCalls, releaseCalls,
               unlockedAccess>>

\* What an operation returned (phase, err, url) and what it did: execs and
\* classified count its calls of nbdkitExecFunction and of NewFormatReaders,
\* exec describes its ConvertAndWrite call.
NoExec == [args |-> NBDKitArgs(NilURL, "", <<>>, ""), commandArgs |-> <<>>,
           cause |-> NoErr, removeCalled |-> FALSE, removeOK |-> FALSE]

NoRet == [op |-> "", phase |-> "", err |-> NoErr, url |-> NilURL, space |-> 0,
          execs |-> 0, classified |-> 0, exec |-> NoExec]

Init ==
    /\ newResult = "none"
    /\ hs = [httpReader |-> "nil", cancel |-> "nil", cancelLock |-> "",
             contentType |-> "", readers |-> NilReaders, endpoint |-> NilURL,
             url |-> NilURL, customCA |-> FALSE, certDir |-> "", contentLength |-> 0]
    /\ ctx = "none"
    /\ files = {}
    /\ ret = NoRet
    /\ pc = [t \in Threads |-> "idle"]
    /\ err = [t \in Threads |-> NoErr]
    /\ rel = [t \in Threads |-> NoErr]
    /\ closeRet = [t \in Threads |-> NoErr]
    /\ closesDone = 0
    /\ errsReturned = 0
    /\ cancelCalls = 0
    /\ releaseCalls = 0
    /\ infoSucceeded = FALSE
    /\ unlockedAccess = FALSE
    /\ panicked = FALSE

\* ---- construction --------------------------------------------------------
\* The constructor injecting credentials when either key is given.
NewInjectsOnEitherKey(endpoint, accessKey, secKey, certDir, contentType, rd) ==
    LET parsed == ParseEndpoint(endpoint)
        ep     == IF accessKey # "" \/ secKey # ""
                  THEN [parsed.ep EXCEPT !.User = UserPassword(accessKey, secKey)]
                  ELSE parsed.ep
    IN  /\ newResult = "none"
        /\ IF parsed.err # NoErr
           THEN /\ newResult' = "error"
                /\ ret' = [NoRet EXCEPT !.op = "New", !.phase = ProcessingPhaseError,
                                        !.err = Wrap(parsed.err, "unable to parse endpoint")]
                /\ UNCHANGED <<hs, ctx, cancelCalls>>
           ELSE IF rd.err # NoErr
           THEN /\ newResult' = "error"
                /\ ctx' = "cancelled"
                /\ cancelCalls' = cancelCalls + 1
                /\ ret' = [NoRet EXCEPT !.op = "New", !.phase = ProcessingPhaseError,
                                        !.err = rd.err]
                /\ UNCHANGED hs
           ELSE /\ newResult' = "live"
                /\ ctx' = "live"
                /\ hs' = [hs EXCEPT !.cancel = "cancelFunc", !.httpReader = "open",
                                    !.contentType = contentType, !.endpoint = ep,
                                    !.customCA = (certDir # ""),
                                    !.contentLength = rd.contentLength,
                                    !.certDir = certDir]
                /\ ret' = [NoRet EXCEPT !.op = "New"]
                /\ UNCHANGED cancelCalls
        /\ UNCHANGED <<files, pc, err, rel, closeRet, closesDone, errsReturned,
                       releaseCalls, infoSucceeded, unlockedAccess, panicked>>

\* The constructor returning the reader's error without cancelling.
NewLeaksContext(endpoint, accessKey, secKey, certDir, contentType, rd) ==
    LET parsed == ParseEndpoint(endpoint)
        ep     == IF accessKey # "" /\ secKey # ""
                  THEN [parsed.ep EXCEPT !.User = UserPassword(accessKey, secKey)]
                  ELSE parsed.ep
    IN  /\ newResult = "none"
        /\ IF parsed.err # NoErr
           THEN /\ newResult' = "error"
                /\ ret' = [NoRet EXCEPT !.op = "New", !.phase = ProcessingPhaseError,
                                        !.err = Wrap(parsed.err, "unable to parse endpoint")]
                /\ UNCHANGED <<hs, ctx, cancelCalls>>
           ELSE IF rd.err # NoErr
           THEN /\ newResult' = "error"
                /\ ctx' = "live"
                /\ UNCHANGED cancelCalls
                /\ ret' = [NoRet EXCEPT !.op = "New", !.phase = ProcessingPhaseError,
                                        !.err = rd.err]
                /\ UNCHANGED hs
           ELSE /\ newResult' = "live"
                /\ ctx' = "live"
                /\ hs' = [hs EXCEPT !.cancel = "cancelFunc", !.httpReader = "open",
                                    !.contentType = contentType, !.endpoint = ep,
                                    !.customCA = (certDir # ""),
                                    !.contentLength = rd.contentLength,
                                    !.certDir = certDir]
                /\ ret' = [NoRet EXCEPT !.op = "New"]
                /\ UNCHANGED cancelCalls
        /\ UNCHANGED <<files, pc, err, rel, closeRet, closesDone, errsReturned,
                       releaseCalls, infoSucceeded, unlockedAccess, panicked>>

NewNbdkitHTTPDataSource(endpoint, accessKey, secKey, certDir, contentType, rd) ==
    LET parsed == ParseEndpoint(endpoint)
        ep     == IF accessKey # "" /\ secKey # ""
                  THEN [parsed.ep EXCEPT !.User = UserPassword(accessKey, secKey)]
                  ELSE parsed.ep
    IN  /\ newResult = "none"
        /\ IF parsed.err # NoErr
           THEN /\ newResult' = "error"
                /\ ret' = [NoRet EXCEPT !.op = "New", !.phase = ProcessingPhaseError,
                                        !.err = Wrap(parsed.err, "unable to parse endpoint")]
                /\ UNCHANGED <<hs, ctx, cancelCalls>>
           ELSE IF rd.err # NoErr
           THEN /\ newResult' = "error"
                /\ ctx' = "cancelled"
                /\ cancelCalls' = cancelCalls + 1
                /\ ret' = [NoRet EXCEPT !.op = "New", !.phase = ProcessingPhaseError,
                                        !.err = rd.err]
                /\ UNCHANGED hs
           ELSE /\ newResult' = "live"
                /\ ctx' = "live"
                /\ hs' = [hs EXCEPT !.cancel = "cancelFunc", !.httpReader = "open",
                                    !.contentType = contentType, !.endpoint = ep,
                                    !.customCA = (certDir # ""),
                                    !.contentLength = rd.contentLength,
                                    !.certDir = certDir]
                /\ ret' = [NoRet EXCEPT !.op = "New"]
                /\ UNCHANGED cancelCalls
        /\ UNCHANGED <<files, pc, err, rel, closeRet, closesDone, errsReturned,
                       releaseCalls, infoSucceeded, unlockedAccess, panicked>>

\* ---- the driver's phase operations ---------------------------------------
DriverReady ==
    /\ newResult = "live"
    /\ ~panicked
    /\ pc["driver"] = "idle"

\* Info with hs.url assigned before the error checks.
InfoSetsURLFirst(out) ==
    /\ DriverReady
    /\ IF hs.contentType # DataVolumeKubeVirt
       THEN /\ hs' = [hs EXCEPT !.readers = out.readers, !.url = hs.endpoint]
            /\ ret' = [NoRet EXCEPT !.op = "Info", !.classified = 1,
                                    !.phase = ProcessingPhaseError,
                                    !.err = ErrUnsupportedContentType]
            /\ UNCHANGED infoSucceeded
       ELSE IF out.err # NoErr
       THEN /\ hs' = [hs EXCEPT !.readers = out.readers, !.url = hs.endpoint]
            /\ ret' = [NoRet EXCEPT !.op = "Info", !.classified = 1,
                                    !.phase = ProcessingPhaseError, !.err = out.err]
            /\ UNCHANGED infoSucceeded
       ELSE /\ hs' = [hs EXCEPT !.readers = out.readers, !.url = hs.endpoint]
            /\ ret' = [NoRet EXCEPT !.op = "Info", !.classified = 1,
                                    !.phase = ProcessingPhaseTransferDataFile]
            /\ infoSucceeded' = TRUE
    /\ UNCHANGED <<newResult, ctx, files, panicked>>
    /\ UNCHANGED closeVars

Info(out) ==
    /\ DriverReady
    /\ IF hs.contentType # DataVolumeKubeVirt
       THEN /\ hs' = [hs EXCEPT !.readers = out.readers]
            /\ ret' = [NoRet EXCEPT !.op = "Info", !.classified = 1, !.phase = ProcessingPhaseError,
                                    !.err = ErrUnsupportedContentType]
            /\ UNCHANGED infoSucceeded
       ELSE IF out.err # NoErr
       THEN /\ hs' = [hs EXCEPT !.readers = out.readers]
            /\ ret' = [NoRet EXCEPT !.op = "Info", !.classified = 1, !.phase = ProcessingPhaseError,
                                    !.err = out.err]
            /\ UNCHANGED infoSucceeded
       ELSE /\ hs' = [hs EXCEPT !.readers = out.readers, !.url = hs.endpoint]
            /\ ret' = [NoRet EXCEPT !.op = "Info", !.classified = 1, !.phase = ProcessingPhaseTransferDataFile]
            /\ infoSucceeded' = TRUE
    /\ UNCHANGED <<newResult, ctx, files, panicked>>
    /\ UNCHANGED closeVars

\* The bookkeeping of one ConvertAndWrite call made by operation op.
RunConversion(op, args, exec, removeOK, space) ==
    LET r == ConvertAndWrite(args, exec, removeOK, files)
    IN  /\ files' = r.files
        /\ ret' = [NoRet EXCEPT !.op = op,
                                !.phase = IF r.err # NoErr THEN ProcessingPhaseError
                                          ELSE ProcessingPhaseResize,
                                !.err = r.err, !.space = space, !.execs = 1,
                                !.exec = [args |-> args, commandArgs |-> r.commandArgs,
                                          cause |-> exec.err,
                                          removeCalled |-> r.removeCalled,
                                          removeOK |-> r.removeCalled /\ removeOK]]

\* Transfer with the space check written size < 0.
TransferStrictlyNegative(path, size, exec, removeOK) ==
    /\ DriverReady
    /\ IF size < 0
       THEN /\ ret' = [NoRet EXCEPT !.op = "Transfer", !.phase = ProcessingPhaseError,
                                    !.err = ErrInvalidPath, !.space = size]
            /\ UNCHANGED files
       ELSE RunConversion("Transfer",
                          NBDKitArgs(hs.endpoint, FilepathJoin(path, tempFile), <<>>, ""),
                          exec, removeOK, size)
    /\ UNCHANGED <<newResult, hs, ctx, infoSucceeded, panicked>>
    /\ UNCHANGED closeVars

Transfer(path, size, exec, removeOK) ==
    /\ DriverReady
    /\ IF size <= 0
       THEN /\ ret' = [NoRet EXCEPT !.op = "Transfer", !.phase = ProcessingPhaseError,
                                    !.err = ErrInvalidPath, !.space = size]
            /\ UNCHANGED files
       ELSE RunConversion("Transfer",
                          NBDKitArgs(hs.endpoint, FilepathJoin(path, tempFile), <<>>, ""),
                          exec, removeOK, size)
    /\ UNCHANGED <<newResult, hs, ctx, infoSucceeded, panicked>>
    /\ UNCHANGED closeVars

\* TransferFile that never requests the xz filter.
TransferFileNoFilter(fileName, exec, removeOK) ==
    /\ DriverReady
    /\ IF hs.readers = NilReaders
       THEN /\ panicked' = TRUE
            /\ ret' = [NoRet EXCEPT !.op = "TransferFile", !.phase = "panic"]
            /\ UNCHANGED files
       ELSE /\ RunConversion("TransferFile",
                             NBDKitArgs(hs.endpoint, fileName, <<>>,
                                        IF hs.customCA THEN hs.certDir ELSE ""),
                             exec, removeOK, 0)
            /\ UNCHANGED panicked
    /\ UNCHANGED <<newResult, hs, ctx, infoSucceeded>>
    /\ UNCHANGED closeVars

TransferFile(fileName, exec, removeOK) ==
    /\ DriverReady
    /\ IF hs.readers = NilReaders
       THEN /\ panicked' = TRUE
            /\ ret' = [NoRet EXCEPT !.op = "TransferFile", !.phase = "panic"]
            /\ UNCHANGED files
       ELSE /\ RunConversion("TransferFile",
                             NBDKitArgs(hs.endpoint, fileName,
                                        IF ReadersXz(hs.readers) THEN <<Xz>> ELSE <<>>,
                                        IF hs.customCA THEN hs.certDir ELSE ""),
                             exec, removeOK, 0)
            /\ UNCHANGED panicked
    /\ UNCHANGED <<newResult, hs, ctx, infoSucceeded>>
    /\ UNCHANGED closeVars

\* Process that publishes the endpoint as the URL to report.
ProcessSetsURL ==
    /\ DriverReady
    /\ hs' = [hs EXCEPT !.url = hs.endpoint]
    /\ ret' = [NoRet EXCEPT !.op = "Process", !.phase = ProcessingPhaseConvert]
    /\ UNCHANGED <<newResult, ctx, files, infoSucceeded, panicked>>
    /\ UNCHANGED closeVars

Process ==
    /\ DriverReady
    /\ ret' = [NoRet EXCEPT !.op = "Process", !.phase = ProcessingPhaseConvert]
    /\ UNCHANGED <<newResult, hs, ctx, files, infoSucceeded, panicked>>
    /\ UNCHANGED closeVars

GetURL ==
    /\ DriverReady
    /\ ret' = [NoRet EXCEPT !.op = "GetURL", !.url = hs.url]
    /\ UNCHANGED <<newResult, hs, ctx, files, infoSucceeded, panicked>>
    /\ UNCHANGED closeVars

\* ---- Close, statement by statement ---------------------------------------
\* Close calls begun so far, over all threads.
CloseCallsMade == closesDone + Cardinality({t \in Threads : pc[t] # "idle"})

\* Close returning the release error at once, before the cancellation.
CloseReadersReturnOnError(t, out) ==
    /\ newResult = "live"
    /\ ~panicked
    /\ pc[t] = "idle"
    /\ CloseCallsMade < MaxCloses
    /\ IF hs.readers # NilReaders
       THEN /\ err' = [err EXCEPT ![t] = out]
            /\ rel' = [rel EXCEPT ![t] = out]
            /\ releaseCalls' = releaseCalls + 1
       ELSE /\ err' = [err EXCEPT ![t] = NoErr]
            /\ rel' = [rel EXCEPT ![t] = NoErr]
            /\ UNCHANGED releaseCalls
    /\ IF hs.readers # NilReaders /\ out # NoErr
       THEN /\ closeRet' = [closeRet EXCEPT ![t] = out]
            /\ closesDone' = closesDone + 1
            /\ errsReturned' = errsReturned + 1
            /\ UNCHANGED pc
       ELSE /\ pc' = [pc EXCEPT ![t] = "lock"]
            /\ UNCHANGED <<closeRet, closesDone, errsReturned>>
    /\ UNCHANGED <<newResult, hs, ctx, files, ret, cancelCalls, infoSucceeded,
                   unlockedAccess, panicked>>

\* if hs.readers != nil { err = hs.readers.Close() }
CloseReaders(t, out) ==
    /\ newResult = "live"
    /\ ~panicked
    /\ pc[t] = "idle"
    /\ CloseCallsMade < MaxCloses
    /\ IF hs.readers # NilReaders
       THEN /\ err' = [err EXCEPT ![t] = out]
            /\ rel' = [rel EXCEPT ![t] = out]
            /\ releaseCalls' = releaseCalls + 1
       ELSE /\ err' = [err EXCEPT ![t] = NoErr]
            /\ rel' = [rel EXCEPT ![t] = NoErr]
            /\ UNCHANGED releaseCalls
    /\ pc' = [pc EXCEPT ![t] = "lock"]
    /\ UNCHANGED <<newResult, hs, ctx, files, ret, closeRet, closesDone,
                   errsReturned, cancelCalls, infoSucceeded, unlockedAccess, panicked>>

\* Close without mutual exclusion: Lock that does not wait for the holder.
CloseLockNoWait(t) ==
    /\ ~panicked
    /\ pc[t] = "lock"
    /\ hs' = [hs EXCEPT !.cancelLock = t]
    /\ pc' = [pc EXCEPT ![t] = "check"]
    /\ UNCHANGED <<newResult, ctx, files, ret, err, rel, closeRet, closesDone,
                   errsReturned, cancelCalls, releaseCalls, infoSucceeded,
                   unlockedAccess, panicked>>

\* hs.cancelLock.Lock()
CloseLock(t) ==
    /\ ~panicked
    /\ pc[t] = "lock"
    /\ hs.cancelLock = ""
    /\ hs' = [hs EXCEPT !.cancelLock = t]
    /\ pc' = [pc EXCEPT ![t] = "check"]
    /\ UNCHANGED <<newResult, ctx, files, ret, err, rel, closeRet, closesDone,
                   errsReturned, cancelCalls, releaseCalls, infoSucceeded,
                   unlockedAccess, panicked>>

\* if hs.cancel != nil
CloseCheckCancel(t) ==
    /\ ~panicked
    /\ pc[t] = "check"
    /\ pc' = [pc EXCEPT ![t] = IF hs.cancel # "nil" THEN "cancel" ELSE "unlock"]
    /\ unlockedAccess' = (unlockedAccess \/ hs.cancelLock # t)
    /\ UNCHANGED <<newResult, hs, ctx, files, ret, err, rel, closeRet,
                   closesDone, errsReturned, cancelCalls, releaseCalls, infoSucceeded,
                   panicked>>

\* hs.cancel()
CloseCallCancel(t) ==
    /\ ~panicked
    /\ pc[t] = "cancel"
    /\ IF hs.cancel = "nil"
       THEN /\ panicked' = TRUE
            /\ UNCHANGED <<ctx, cancelCalls>>
       ELSE /\ ctx' = "cancelled"
            /\ cancelCalls' = cancelCalls + 1
            /\ UNCHANGED panicked
    /\ pc' = [pc EXCEPT ![t] = "clear"]
    /\ unlockedAccess' = (unlockedAccess \/ hs.cancelLock # t)
    /\ UNCHANGED <<newResult, hs, files, ret, err, rel, closeRet, closesDone,
                   errsReturned, releaseCalls, infoSucceeded>>

\* hs.cancel = nil
CloseClearCancel(t) ==
    /\ ~panicked
    /\ pc[t] = "clear"
    /\ hs' = [hs EXCEPT !.cancel = "nil"]
    /\ pc' = [pc EXCEPT ![t] = "unlock"]
    /\ unlockedAccess' = (unlockedAccess \/ hs.cancelLock # t)
    /\ UNCHANGED <<newResult, ctx, files, ret, err, rel, closeRet, closesDone,
                   errsReturned, cancelCalls, releaseCalls, infoSucceeded, panicked>>

\* hs.cancelLock.Unlock(); return err
CloseUnlock(t) ==
    /\ ~panicked
    /\ pc[t] = "unlock"
    /\ hs' = [hs EXCEPT !.cancelLock = ""]
    /\ closeRet' = [closeRet EXCEPT ![t] = err[t]]
    /\ closesDone' = closesDone + 1
    /\ errsReturned' = errsReturned + (IF err[t] # NoErr THEN 1 ELSE 0)
    /\ pc' = [pc EXCEPT ![t] = "idle"]
    /\ UNCHANGED <<newResult, ctx, files, ret, err, rel, cancelCalls,
                   releaseCalls, infoSucceeded, unlockedAccess, panicked>>

\* One statement of a Close call running on thread t.
Close(t) ==
    \/ \E out \in ReleaseOutcomes : CloseReaders(t, out)
    \/ CloseLock(t)
    \/ CloseCheckCancel(t)
    \/ CloseCallCancel(t)
    \/ CloseClearCancel(t)
    \/ CloseUnlock(t)

\* ---- the system ----------------------------------------------------------
New ==
    \E endpoint \in EndpointInputs, accessKey \in AccessKeys, secKey \in SecKeys,
       certDir \in CertDirs, contentType \in ContentTypes, rd \in HTTPReaderOutcomes :
       NewNbdkitHTTPDataSource(endpoint, accessKey, secKey, certDir, contentType, rd)

PhaseOps ==
    \/ \E out \in ClassifyOutcomes : Info(out)
    \/ \E path \in ScratchPaths, size \in AvailableSpaces, exec \in ExecOutcomes,
          removeOK \in BOOLEAN : Transfer(path, size, exec, removeOK)
    \/ \E fileName \in DestFiles, exec \in ExecOutcomes, removeOK \in BOOLEAN :
          TransferFile(fileName, exec, removeOK)
    \/ Process
    \/ GetURL

\* The driver alone: construction, then phase operations and Close calls in
\* any order, one at a time.
Next ==
    \/ New
    \/ PhaseOps
    \/ Close("driver")

Spec == Init /\ [][Next]_vars

\* The driver and a watchdog thread that calls Close concurrently.  The
\* endpoint, the keys and the trust directory play no part in Close and are
\* fixed here.
NewPlain ==
    \E contentType \in ContentTypes, rd \in HTTPReaderOutcomes :
       NewNbdkitHTTPDataSource("https://example.com/disk.qcow2", "", "", "", contentType, rd)

ConcurrentNext ==
    \/ NewPlain
    \/ PhaseOps
    \/ \E t \in Threads : Close(t)

ConcurrentSpec == Init /\ [][ConcurrentNext]_vars

\* A Close call that has been made takes its next statement: the scheduler
\* lets every thread run, and sync.Mutex hands the lock to a waiting thread.
CloseProgress(t) ==
    \/ CloseLock(t)
    \/ CloseCheckCancel(t)
    \/ CloseCallCancel(t)
    \/ CloseClearCancel(t)
    \/ CloseUnlock(t)

FairConcurrentSpec ==
    Init /\ [][ConcurrentNext]_vars /\ \A t \in Threads : WF_vars(CloseProgress(t))

\* The operations object on its own: any caller of the NBDKitOperations
\* interface passing any request to ConvertAndWrite.
MaxFilters == 2

FilterNames == {"xz", "gzip"}

RECURSIVE FilterLists(_)
FilterLists(n) ==
    IF n = 0 THEN {<<>>}
    ELSE LET shorter == FilterLists(n - 1)
         IN  shorter \cup {Append(s, f) : s \in shorter, f \in FilterNames}

SourceURLs ==
    {[Scheme |-> "https", User |-> <<>>, Host |-> "example.com", Path |-> "/disk.qcow2"],
     [Scheme |-> "http", User |-> <<"bob">>, Host |-> "mirror", Path |-> "/d.img"],
     [Scheme |-> "http", User |-> UserPassword("ak", "sk"), Host |-> "mirror", Path |-> "/d.img"]}

ConversionRequests ==
    {NBDKitArgs(u, d, f, c) :
        u \in SourceURLs, d \in DestFiles \cup {FilepathJoin("/scratch", tempFile)},
        f \in FilterLists(MaxFilters), c \in CertDirs}

CallConvertAndWrite(args, exec, removeOK) ==
    /\ newResult = "none"
    /\ RunConversion("ConvertAndWrite", args, exec, removeOK, 0)
    /\ UNCHANGED <<newResult, hs, ctx, infoSucceeded, panicked>>
    /\ UNCHANGED closeVars

OperationsNext ==
    \E args \in ConversionRequests, exec \in ExecOutcomes, removeOK \in BOOLEAN :
       CallConvertAndWrite(args, exec, removeOK)

OperationsSpec == Init /\ [][OperationsNext]_vars

\* ---- claims ---------------------------------------------------------------
\* The conversion call of the driver's last operation, if it made one.
Converted == ret.execs > 0

ConversionFailed == Converted /\ ret.exec.cause # NoErr

\* C1: with a declared content type other than kubevirt, Info returns Error
\* with the unsupported-content-type error and does not call NewFormatReaders
\* on the HTTP reader.
C1_UnsupportedSkipsClassification ==
    (ret.op = "Info" /\ hs.contentType # DataVolumeKubeVirt)
        => /\ ret.phase = ProcessingPhaseError
           /\ ret.err = ErrUnsupportedContentType
           /\ ret.classified = 0

\* C2: a Transfer whose scratch path reports available space <= 0 returns
\* (Error, ErrInvalidPath), makes no call of the executor and creates no file;
\* a Transfer calls the executor only when the space is > 0.
C2_NoSpaceNoConversion ==
    /\ [](ret.op = "Transfer"
            => /\ ret.space <= 0 => /\ ret.phase = ProcessingPhaseError
                                    /\ ret.err = ErrInvalidPath
                                    /\ ret.execs = 0
               /\ ret.execs > 0 => ret.space > 0)
    /\ [][(ret'.op = "Transfer" /\ ret'.space <= 0) => files' = files]_vars

C2_Witness ==
    /\ ret.op = "Transfer"
    /\ ret.space = 0
    /\ ret.phase = ProcessingPhaseError
    /\ FilepathJoin("/scratch", tempFile) \notin files

\* C3 as stated: after a failed conversion the destination is absent, os.Remove
\* was called and the error wraps the subprocess's cause; after a successful
\* one the error is nil and os.Remove was not called.
C3_FailureLeavesNoDestination ==
    /\ ConversionFailed
         => /\ ret.exec.removeCalled
            /\ ret.exec.args.Dest \notin files
            /\ ret.err = Wrap(ret.exec.cause, "could not stream/convert image to raw")
    /\ (Converted /\ ~ConversionFailed)
         => /\ ret.err = NoErr
            /\ ~ret.exec.removeCalled

\* C3 as amended: after a failed conversion os.Remove was called on the
\* destination and the error wraps the subprocess's cause; the destination is
\* absent whenever that removal went through (its error is ignored).  After a
\* successful conversion the error is nil, os.Remove was not called and the
\* destination is there.
C3_FailureRemovesBestEffort ==
    /\ ConversionFailed
         => /\ ret.exec.removeCalled
            /\ ret.exec.removeOK => ret.exec.args.Dest \notin files
            /\ ret.err = Wrap(ret.exec.cause, "could not stream/convert image to raw")
            /\ Cause(ret.err) = Cause(ret.exec.cause)
            /\ ret.phase = ProcessingPhaseError
    /\ (Converted /\ ~ConversionFailed)
         => /\ ret.err = NoErr
            /\ ~ret.exec.removeCalled
            /\ ret.exec.args.Dest \in files

C3_Witness ==
    /\ ConversionFailed
    /\ ret.exec.cause = <<"exit status 1">>
    /\ ret.exec.removeOK
    /\ ret.exec.args.Dest \notin files

\* C4: over all Close calls of all threads the cancel function is called
\* exactly once: at most once ever, once as soon as one Close has returned
\* (which leaves hs.cancel nil), and hs.cancel is read and written only by the
\* holder of cancelLock.
C4_CancelExactlyOnce ==
    /\ cancelCalls <= 1
    /\ closesDone > 0 => (cancelCalls = 1 /\ hs.cancel = "nil")
    /\ ~unlockedAccess

C4_Witness ==
    /\ closesDone = 1
    /\ cancelCalls = 1
    /\ hs.cancelLock = "watchdog"
    /\ pc["watchdog"] = "unlock"
    /\ closeRet["driver"] = NoErr

\* C5: over repeated or concurrent Close calls the reader stack is released at
\* most once, and at most one Close call returns a release error.
C5_ReadersReleasedAtMostOnce ==
    /\ releaseCalls <= 1
    /\ errsReturned <= 1

\* C6: once a Close call has returned the context is cancelled, whatever the
\* release gave; each Close call returns what hs.readers.Close() gave it, nil
\* when it released nothing, so no more errors are returned than releases made.
C6_CloseCancelsAndReturnsReleaseError ==
    /\ closesDone > 0 => ctx = "cancelled"
    /\ \A t \in Threads : pc[t] = "idle" => closeRet[t] = rel[t]
    /\ errsReturned <= releaseCalls

C6_Witness ==
    /\ closesDone = 1
    /\ ctx = "cancelled"
    /\ cancelCalls = 1
    /\ closeRet["watchdog"] = <<"ResourceReleaseFailed">>

\* C7: no public operation panics, in any order of calls.
C7_NoPanic == ~panicked

\* C8: every call of the executor by Transfer or TransferFile comes after an
\* Info call that returned TransferDataFile.
C8_ConversionOnlyAfterInfo == Converted => infoSucceeded

\* C9: hs.url is unset until an Info call has succeeded, is set only by an
\* Info call that returns TransferDataFile, never changes once set, and GetURL
\* returns it.
C9_URLSetOnceByInfo ==
    /\ [](hs.url # NilURL => infoSucceeded)
    /\ [](ret.op = "GetURL" => ret.url = hs.url)
    /\ [][hs.url # NilURL => hs'.url = hs.url]_vars
    /\ [][(hs.url = NilURL /\ hs'.url # NilURL)
            => (ret'.op = "Info" /\ ret'.phase = ProcessingPhaseTransferDataFile
                /\ hs'.url = hs.endpoint)]_vars

C9_Witness ==
    /\ hs.url # NilURL
    /\ hs.url = hs.endpoint
    /\ ret.op = "Info"
    /\ ret.phase = ProcessingPhaseError
    /\ closesDone > 0

\* C10: every conversion launched for a source with a custom CA has
\* cainfo=<certDir>/tls.crt immediately before the source URL in its arguments,
\* and every conversion launched for a source without one has no cainfo
\* argument.
CainfoArgs == {"cainfo=" \o d \o "/tls.crt" : d \in CertDirs}

C10_CainfoBeforeSourceURL ==
    Converted =>
        LET a == ret.exec.commandArgs
        IN  IF hs.customCA
            THEN \E i \in 1..(Len(a) - 1) :
                    /\ a[i] = "cainfo=" \o hs.certDir \o "/tls.crt"
                    /\ a[i + 1] = URLString(hs.endpoint)
            ELSE \A i \in 1..Len(a) : a[i] \notin CainfoArgs

\* The elements of a sequence.
Range(s) == {s[i] : i \in 1..Len(s)}

\* The --filter arguments nbdkit can be given.
FilterArgs == {"--filter=" \o f : f \in {"xz", "gzip"}}

\* C11: the arguments TransferFile builds hold --filter=xz exactly when the
\* classification kept in hs.readers found xz compression, and hold no
\* --filter argument at all when it found none.
C11_FilterIffCompressed ==
    (ret.op = "TransferFile" /\ Converted)
        => /\ ("--filter=xz" \in Range(ret.exec.commandArgs)) <=> ReadersXz(hs.readers)
           /\ ~ReadersXz(hs.readers) => Range(ret.exec.commandArgs) \cap FilterArgs = {}
           /\ ret.exec.args.Filters = IF ReadersXz(hs.readers) THEN <<Xz>> ELSE <<>>

C11_Witness ==
    /\ ret.op = "TransferFile"
    /\ Converted
    /\ ReadersXz(hs.readers)
    /\ infoSucceeded
    /\ "--filter=xz" \in Range(ret.exec.commandArgs)

\* C12: for every request the arguments given to nbdkit are, in this order,
\* -U, -, -r, curl, --verbose, the cainfo parameter when the request has a
\* trust directory, the source URL, one --filter=<name> per requested filter
\* in request order, --run and the qemu-img command line that writes raw
\* output with cache mode none to the destination.
C12_ExactArgumentList ==
    Converted =>
        LET a == ret.exec.commandArgs
            r == ret.exec.args
            c == IF r.CertDir # "" THEN 1 ELSE 0
            n == Len(r.Filters)
        IN  /\ Len(a) = 8 + c + n
            /\ a[1] = "-U"
            /\ a[2] = "-"
            /\ a[3] = "-r"
            /\ a[4] = "curl"
            /\ a[5] = "--verbose"
            /\ c = 1 => a[6] = "cainfo=" \o r.CertDir \o "/tls.crt"
            /\ a[6 + c] = URLString(r.SourceURL)
            /\ \A i \in 1..n : a[6 + c + i] = "--filter=" \o r.Filters[i]
            /\ a[7 + c + n] = "--run"
            /\ a[8 + c + n] = "/usr/bin/qemu-img convert -p $nbd -t none -O raw " \o r.Dest

C12_Witness ==
    /\ Converted
    /\ ret.exec.args.Filters = <<"gzip", "xz">>
    /\ ret.exec.args.CertDir = "/certs"
    /\ ret.exec.commandArgs =
         <<"-U", "-", "-r", "curl", "--verbose", "cainfo=/certs/tls.crt",
           "http://ak:sk@mirror/d.img", "--filter=gzip", "--filter=xz", "--run",
           "/usr/bin/qemu-img convert -p $nbd -t none -O raw /data/disk.img">>

\* C13: with content type kubevirt, an Info call whose classification succeeds
\* returns (TransferDataFile, nil) and sets hs.url to hs.endpoint, so that
\* GetURL gives the endpoint; one whose classification fails returns Error
\* with the classification's own error and does not touch hs.url, which is
\* unset unless an earlier Info call succeeded.
C13_InfoSetsURLOrSurfacesCause ==
    /\ [][\A out \in ClassifyOutcomes :
            (Info(out) /\ hs.contentType = DataVolumeKubeVirt)
              => IF out.err = NoErr
                 THEN /\ ret'.phase = ProcessingPhaseTransferDataFile
                      /\ ret'.err = NoErr
                      /\ hs'.url = hs.endpoint
                      /\ hs'.url # NilURL
                 ELSE /\ ret'.phase = ProcessingPhaseError
                      /\ ret'.err = out.err
                      /\ hs'.url = hs.url
                      /\ ~infoSucceeded => hs'.url = NilURL]_vars
    /\ []((ret.op = "GetURL" /\ infoSucceeded) => ret.url = hs.endpoint)

C13_Witness ==
    /\ ret.op = "GetURL"
    /\ infoSucceeded
    /\ hs.contentLength = 200
    /\ ~hs.customCA
    /\ URLString(ret.url) = "https://example.com/disk.qcow2"

\* C14: every Transfer call that passes the space check and every
\* TransferFile call runs the executor exactly once, and returns
\* (Resize, nil) if that run succeeded, (Error, wrapped cause) if it failed.
C14_OneInvocationDecidesResult ==
    ((ret.op = "Transfer" /\ ret.space > 0) \/ ret.op = "TransferFile")
        => /\ ret.execs = 1
           /\ IF ret.exec.cause = NoErr
              THEN ret.phase = ProcessingPhaseResize /\ ret.err = NoErr
              ELSE /\ ret.phase = ProcessingPhaseError
                   /\ ret.err = Wrap(ret.exec.cause, "could not stream/convert image to raw")

\* C15: a Process call returns (Convert, nil) whatever the state of the
\* instance, and changes no field of the instance, nor the context, nor the
\* files.
C15_ProcessIsPure ==
    /\ [](ret.op = "Process" => (ret.phase = ProcessingPhaseConvert /\ ret.err = NoErr))
    /\ [][Process => /\ hs' = hs
                     /\ ctx' = ctx
                     /\ files' = files
                     /\ ret'.phase = ProcessingPhaseConvert
                     /\ ret'.err = NoErr]_vars

C15_Witness ==
    /\ ret.op = "Process"
    /\ ret.phase = ProcessingPhaseConvert
    /\ ~infoSucceeded
    /\ hs.url = NilURL
    /\ closesDone > 0
    /\ hs.cancel = "nil"

\* C16: when Info, Transfer or TransferFile returns Error, the context has been
\* cancelled and nothing is left at the destination of the conversion, if the
\* operation ran one.
C16_CleanupBeforeError ==
    (ret.op \in {"Info", "Transfer", "TransferFile"} /\ ret.phase = ProcessingPhaseError)
        => /\ ctx = "cancelled"
           /\ Converted => ret.exec.args.Dest \notin files

\* A call of one of the phase operations Info, Transfer, TransferFile, Process.
PhaseOpCall ==
    \/ \E out \in ClassifyOutcomes : Info(out)
    \/ \E path \in ScratchPaths, size \in AvailableSpaces, exec \in ExecOutcomes,
          removeOK \in BOOLEAN : Transfer(path, size, exec, removeOK)
    \/ \E fileName \in DestFiles, exec \in ExecOutcomes, removeOK \in BOOLEAN :
          TransferFile(fileName, exec, removeOK)
    \/ Process

\* C17: once a phase operation has returned Error, a phase operation called
\* after it returns no phase other than Error and launches no conversion.
C17_ErrorIsTerminal ==
    [][(/\ ret.op \in {"Info", "Transfer", "TransferFile", "Process"}
        /\ ret.phase = ProcessingPhaseError
        /\ PhaseOpCall)
          => (ret'.phase \in {ProcessingPhaseError, "panic"} /\ ret'.execs = 0)]_vars

\* C18: the constructor puts user:password into the parsed endpoint exactly
\* when the access key and the secret key are both non-empty, and otherwise
\* leaves the user information as ParseEndpoint gave it; every conversion
\* takes that endpoint as its source URL.
C18_CredentialsIffBothKeys ==
    /\ [][\A endpoint \in EndpointInputs, accessKey \in AccessKeys, secKey \in SecKeys,
             certDir \in CertDirs, contentType \in ContentTypes, rd \in HTTPReaderOutcomes :
            (/\ NewNbdkitHTTPDataSource(endpoint, accessKey, secKey, certDir, contentType, rd)
             /\ newResult' = "live")
              => /\ hs'.endpoint.User = IF accessKey # "" /\ secKey # ""
                                        THEN <<accessKey, secKey>>
                                        ELSE ParseEndpoint(endpoint).ep.User
                 /\ hs'.endpoint.Host = ParseEndpoint(endpoint).ep.Host]_vars
    /\ [][newResult = "live" => hs'.endpoint = hs.endpoint]_vars
    /\ []((Converted /\ newResult = "live")
            => /\ ret.exec.args.SourceURL = hs.endpoint
               /\ URLString(hs.endpoint) \in Range(ret.exec.commandArgs))

C18_Witness ==
    /\ Converted
    /\ hs.endpoint.User = <<"ak", "sk">>
    /\ "http://ak:sk@mirror/d.img" \in Range(ret.exec.commandArgs)

\* C19: construction never leaks a live context.  A construction that fails
\* leaves no live context (the one created before a reader failure is
\* cancelled); a construction that succeeds returns an instance holding a
\* non-nil cancel function and an uncancelled context, and that context is
\* cancelled by nothing but the cancel step of a Close.
C19_NoLiveContextLeak ==
    /\ [](newResult = "error" => ctx # "live")
    /\ []((newResult = "error" /\ Cause(ret.err) = "HTTP request errored")
            => (ctx = "cancelled" /\ cancelCalls = 1))
    /\ [][(newResult = "none" /\ newResult' = "live")
            => (ctx' = "live" /\ hs'.cancel = "cancelFunc")]_vars
    /\ []((newResult = "live" /\ CloseCallsMade = 0) => ctx = "live")
    /\ [][PhaseOpCall => ctx' = ctx]_vars
    /\ [][(newResult = "live" /\ ctx' # ctx)
            => (ctx' = "cancelled" /\ \E t \in Threads : CloseCallCancel(t))]_vars

C19_Witness ==
    /\ newResult = "error"
    /\ Cause(ret.err) = "HTTP request errored"
    /\ ctx = "cancelled"
    /\ cancelCalls = 1

\* C20: Close cannot deadlock.  Under fair scheduling every Close call that
\* has been made returns, and once a Close has returned the context is
\* cancelled and stays cancelled.
C20_EveryCloseReturns ==
    /\ \A t \in Threads : (pc[t] # "idle") ~> (pc[t] = "idle")
    /\ [](closesDone > 0 => ctx = "cancelled")
    /\ [][ctx = "cancelled" => ctx' = "cancelled"]_vars

====
